---- MODULE Spec2Model ----
(***************************************************************************)
(* A model of the RLWE prototype: src/poly_utils.py (Polynomial, the ring  *)
(* multiplication poly_mul_mod, the samplers and the bit codec) and        *)
(* src/rlwe.py (RLWECrypto: generate_keypair, encrypt, decrypt).           *)
(*                                                                         *)
(* Python integers are unbounded and Python floats are IEEE doubles, so    *)
(* the numbers that flow through Polynomial.__mul__ and polynomial_mod are *)
(* kept as sign-and-magnitude numbers ("Big") whose magnitude is a         *)
(* little-endian sequence of limbs; a float is a Big rounded to MantDig    *)
(* significant bits (every float of this program is integer valued: the    *)
(* divisor x^n + 1 is monic with coefficients 0 and 1).                    *)
(***************************************************************************)
EXTENDS Integers, Sequences, FiniteSets

VARIABLES
    scheme,     \* the RLWECrypto object: n, q, std_dev (poly_mod is x^n + 1)
    key,        \* the last generate_keypair: ((a, b), s) and its local e
    enc,        \* the last encrypt: its arguments, its locals r, e1, e2, (c1, c2)
    dec,        \* the last decrypt: its arguments, m_scaled and binary_msg
    rng,        \* how many values the random module has handed out
    draws,      \* the last call and the values it was handed, in the order drawn
    error,      \* the exception the last call raised, "none" if it returned
    mul,        \* a direct poly_mul_mod call: arguments and padded result
    codec,      \* a bytes_to_bits / bits_to_bytes round: input, bits, output
    rb          \* direct randbelow calls: n, the last getrandbits value and
                \* result, and how often each result was returned

vars == <<scheme, key, enc, dec, rng, draws, error, mul, codec, rb>>

----------------------------------------------------------------------------
(* Small helpers on Python ints that fit a machine word.                   *)

Abs(x) == IF x < 0 THEN -x ELSE x

Max(x, y) == IF x >= y THEN x ELSE y

Min(x, y) == IF x <= y THEN x ELSE y

RECURSIVE Pow2(_)
Pow2(k) == IF k = 0 THEN 1 ELSE 2 * Pow2(k - 1)

\* int.bit_length(): the number of bits of |x|, 0 for 0.
RECURSIVE BitLength(_)
BitLength(x) == IF x = 0 THEN 0 ELSE 1 + BitLength(Abs(x) \div 2)

\* Python's x // y for y > 0 (floor division).
FloorDiv(x, y) == x \div y

\* A list built by comprehension, as the tuple of its entries: each entry is
\* computed once, when the list is built.
List(f) == SubSeq(f, 1, Len(f))

\* Python's x % m: the result has the sign of m; m = 0 raises, which the
\* callers test before they get here.
PyMod(x, m) == IF m > 0 THEN x % m ELSE -((-x) % (-m))

----------------------------------------------------------------------------
(* Unbounded naturals: little-endian limb sequences without leading zero   *)
(* limbs; <<>> is 0.                                                       *)

LimbBase == 2^15

LimbBits == BitLength(LimbBase) - 1

\* sys.float_info.mant_dig: the significand of a Python float.
MantDig == 53

RECURSIVE MagNorm(_)
MagNorm(m) ==
    IF m = <<>> THEN <<>>
    ELSE IF m[Len(m)] = 0 THEN MagNorm(SubSeq(m, 1, Len(m) - 1))
    ELSE m

RECURSIVE NatToMag(_)
NatToMag(x) ==
    IF x = 0 THEN <<>> ELSE <<x % LimbBase>> \o NatToMag(x \div LimbBase)

RECURSIVE MagAddC(_, _, _)
MagAddC(a, b, c) ==
    IF a = <<>> /\ b = <<>> THEN (IF c = 0 THEN <<>> ELSE <<c>>)
    ELSE LET x == IF a = <<>> THEN 0 ELSE Head(a)
             y == IF b = <<>> THEN 0 ELSE Head(b)
             t == x + y + c
         IN  <<t % LimbBase>>
             \o MagAddC(IF a = <<>> THEN a ELSE Tail(a),
                        IF b = <<>> THEN b ELSE Tail(b), t \div LimbBase)

MagAdd(a, b) == MagAddC(a, b, 0)

\* -1, 0, 1 as a < b, a = b, a > b.
RECURSIVE MagCmp(_, _)
MagCmp(a, b) ==
    IF Len(a) # Len(b) THEN (IF Len(a) < Len(b) THEN -1 ELSE 1)
    ELSE IF a = <<>> THEN 0
    ELSE IF a[Len(a)] # b[Len(b)]
         THEN (IF a[Len(a)] < b[Len(b)] THEN -1 ELSE 1)
    ELSE MagCmp(SubSeq(a, 1, Len(a) - 1), SubSeq(b, 1, Len(b) - 1))

\* a - b - c for a >= b + c, limb by limb with borrow c.
RECURSIVE MagSubB(_, _, _)
MagSubB(a, b, c) ==
    IF a = <<>> THEN <<>>
    ELSE LET y == IF b = <<>> THEN 0 ELSE Head(b)
             t == Head(a) - y - c
         IN  <<t % LimbBase>>
             \o MagSubB(Tail(a), IF b = <<>> THEN b ELSE Tail(b),
                        IF t < 0 THEN 1 ELSE 0)

MagSub(a, b) == MagNorm(MagSubB(a, b, 0))

\* a * d + c for one limb d.
RECURSIVE MagMulLimb(_, _, _)
MagMulLimb(a, d, c) ==
    IF a = <<>> THEN (IF c = 0 THEN <<>> ELSE <<c>>)
    ELSE LET t == Head(a) * d + c
         IN  <<t % LimbBase>> \o MagMulLimb(Tail(a), d, t \div LimbBase)

RECURSIVE MagMul(_, _)
MagMul(a, b) ==
    IF a = <<>> \/ b = <<>> THEN <<>>
    ELSE MagNorm(MagAdd(MagMulLimb(b, Head(a), 0),
                        <<0>> \o MagMul(Tail(a), b)))

MagBitLen(m) ==
    IF m = <<>> THEN 0 ELSE LimbBits * (Len(m) - 1) + BitLength(m[Len(m)])

\* m * 2^k and m div 2^k.
MagShl(m, k) ==
    IF m = <<>> THEN <<>>
    ELSE List([i \in 1..(k \div LimbBits) |-> 0])
         \o MagNorm(MagMulLimb(m, Pow2(k % LimbBits), 0))

MagShr(m, k) ==
    LET d == k \div LimbBits
        p == Pow2(k % LimbBits)
        t == IF d >= Len(m) THEN <<>> ELSE SubSeq(m, d + 1, Len(m))
    IN  MagNorm(List([i \in 1..Len(t) |->
                    (t[i] \div p)
                    + (IF i < Len(t) THEN (t[i + 1] % p) * (LimbBase \div p)
                       ELSE 0)]))

\* m mod q for a modulus 0 < q < 2^27, by Horner from the top limb: the
\* running residue r becomes (r * LimbBase + limb) mod q, the product taken
\* in steps that stay inside a machine word.
ShiftMod(r, q) ==
    LET a == (16 * r) % q
        b == (16 * a) % q
        c == (16 * b) % q
    IN  ((LimbBase \div 4096) * c) % q

RECURSIVE MagModFrom(_, _, _, _)
MagModFrom(m, i, r, q) ==
    IF i = 0 THEN r
    ELSE MagModFrom(m, i - 1, (ShiftMod(r, q) + (m[i] % q)) % q, q)

MagMod(m, q) == MagModFrom(m, Len(m), 0, q)

\* The nearest number with at most MantDig significant bits, ties to even:
\* what int -> float conversion and every float operation round to.
MagRound(m) ==
    LET bl == MagBitLen(m)
    IN  IF LimbBits * Len(m) <= MantDig \/ bl <= MantDig THEN m
        ELSE LET sh == bl - MantDig
                 hi == MagShr(m, sh)
                 lo == MagSub(m, MagShl(hi, sh))
                 c  == MagCmp(lo, MagShl(<<1>>, sh - 1))
                 up == c = 1 \/ (c = 0 /\ hi[1] % 2 = 1)
             IN  MagShl(IF up THEN MagAdd(hi, <<1>>) ELSE hi, sh)

----------------------------------------------------------------------------
(* Python numbers: neg is the sign, mag the magnitude; zero is never       *)
(* negative (a float -0.0 compares, rounds and reduces as 0).              *)

Big(neg, mag) == [neg |-> neg /\ mag # <<>>, mag |-> mag]

BigZero == Big(FALSE, <<>>)

BigFromInt(x) == Big(x < 0, NatToMag(Abs(x)))

BigIsZero(x) == x.mag = <<>>

BigNeg(x) == Big(~x.neg, x.mag)

BigAdd(x, y) ==
    IF x.neg = y.neg THEN Big(x.neg, MagAdd(x.mag, y.mag))
    ELSE IF MagCmp(x.mag, y.mag) >= 0 THEN Big(x.neg, MagSub(x.mag, y.mag))
    ELSE Big(y.neg, MagSub(y.mag, x.mag))

BigSub(x, y) == BigAdd(x, BigNeg(y))

BigMul(x, y) == Big(x.neg # y.neg, MagMul(x.mag, y.mag))

\* float(x), and the rounding of a float operation's exact result.
ToFloat(x) == Big(x.neg, MagRound(x.mag))

\* x % q for an int or an integer-valued float x and an int q # 0.
BigMod(x, q) ==
    LET r == MagMod(x.mag, Abs(q))
        p == IF x.neg /\ r # 0 THEN Abs(q) - r ELSE r   \* x mod |q| in [0, |q|)
    IN  IF q > 0 \/ p = 0 THEN p ELSE p + q

----------------------------------------------------------------------------
(* class Polynomial: a coefficient list, index 0 first (here index 1).     *)

\* Polynomial(coefficients): trailing zeros are popped, one entry is kept.
RECURSIVE Polynomial(_)
Polynomial(coefficients) ==
    IF Len(coefficients) > 1 /\ coefficients[Len(coefficients)] = 0
    THEN Polynomial(SubSeq(coefficients, 1, Len(coefficients) - 1))
    ELSE coefficients

\* The same on the numbers of the multiplication path; abs(c) < 1e-10 is
\* c = 0 for an integer-valued c.
RECURSIVE TrimBig(_)
TrimBig(c) ==
    IF Len(c) > 1 /\ BigIsZero(c[Len(c)])
    THEN TrimBig(SubSeq(c, 1, Len(c) - 1))
    ELSE c

\* __getitem__: 0 beyond the list.
Coef(p, index) == IF index < Len(p) THEN p[index + 1] ELSE 0

degree(p) == Len(p) - 1

PolyAdd(p, other) ==
    List([i \in 1..(Max(degree(p), degree(other)) + 1) |->
            Coef(p, i - 1) + Coef(other, i - 1)])

PolySub(p, other) ==
    List([i \in 1..(Max(degree(p), degree(other)) + 1) |->
            Coef(p, i - 1) - Coef(other, i - 1)])

PolyNeg(p) == Polynomial(List([i \in 1..Len(p) |-> -p[i]]))

\* p % modulus for a number: every coefficient reduced, then trimmed.
PolyModInt(p, modulus) ==
    Polynomial(List([i \in 1..Len(p) |-> PyMod(p[i], modulus)]))

\* __mul__: result[i + j] += self[i] * other[j] over Python ints, so the
\* coefficients of the product are unbounded; the result is not trimmed.
RECURSIVE SumBig(_, _)
SumBig(f, S) ==
    IF S = {} THEN BigZero
    ELSE LET x == CHOOSE y \in S : TRUE
         IN  BigAdd(f[x], SumBig(f, S \ {x}))

PolyMul(p, other) ==
    List([k \in 1..(degree(p) + degree(other) + 1) |->
        LET I == {i \in 0..degree(p) : k - 1 - i \in 0..degree(other)}
        IN  SumBig([i \in I |-> BigMul(BigFromInt(p[i + 1]),
                                       BigFromInt(other[k - i]))], I)])

\* to_list that forgets the padding.
to_list_unpadded(p, length) == SubSeq(p, 1, Min(Len(p), length))

\* to_list(length): padded with zeros, or cut, to length entries.
to_list(p, length) ==
    List([i \in 1..length |-> IF i <= Len(p) THEN p[i] ELSE 0])

\* create_poly_mod(n): x^n + 1.
create_poly_mod(n) ==
    List([i \in 1..(n + 1) |-> IF i = 1 \/ i = n + 1 THEN 1 ELSE 0])

\* One pass of polynomial_mod's loop body on remainder r: the leading term's
\* coefficient is made a float by the true division, coefficient * divisor[i]
\* is subtracted from the n + 1 top entries (each becomes a float, also where
\* divisor[i] is 0), and trailing entries below 1e-10 are popped.
ModStep(r, divisor) ==
    LET dd          == degree(divisor)
        coefficient == ToFloat(r[Len(r)])     \* divisor's leading entry is 1
        exponent    == degree(r) - dd
        sub == List([k \in 1..Len(r) |->
                  LET i == k - 1 - exponent
                  IN  IF i < 0 THEN r[k]
                      ELSE ToFloat(BigSub(ToFloat(r[k]),
                               IF divisor[i + 1] = 1 THEN coefficient
                               ELSE BigZero))])
    IN  TrimBig(sub)

RECURSIVE ModLoop(_, _)
ModLoop(r, divisor) ==
    IF degree(r) >= degree(divisor) /\ \E k \in 1..Len(r) : ~BigIsZero(r[k])
    THEN ModLoop(ModStep(r, divisor), divisor)
    ELSE r

\* polynomial_mod(dividend, divisor) for the divisor the program passes,
\* create_poly_mod(n).
polynomial_mod(dividend, divisor) ==
    ModLoop(TrimBig(dividend), divisor)

\* poly_mul_mod(a, b, mod_poly, q): (a * b) % mod_poly, then every entry
\* rounded and reduced mod q in place (the result is not trimmed again).
poly_mul_mod(a, b, mod_poly, q) ==
    LET result == polynomial_mod(PolyMul(Polynomial(a), Polynomial(b)),
                                 mod_poly)
    IN  List([i \in 1..Len(result) |-> BigMod(result[i], q)])

----------------------------------------------------------------------------
(* The samplers. The random module is a stream of values: a call is handed *)
(* the next ones in the order it asks for them.                            *)

\* (n.bit_length() + 7) // 8
NumBytes(n) == (BitLength(n) + 7) \div 8

\* What getrandbits(num_bytes * 8) can return.
InRawRange(n, raw) == raw >= 0 /\ BitLength(raw) <= 8 * NumBytes(n)

\* randbelow(n) for the getrandbits value raw; n = 0 raises before this.
randbelow(n, raw) == PyMod(raw, n)

\* sample_uniform(n, q) from n getrandbits values.
sample_uniform(n, q, raws) == List([i \in 1..n |-> randbelow(q, raws[i])])

\* sample_error(n, q, std_dev) from n rounded Gaussian values
\* round(random.gauss(0, std_dev)).
sample_error(n, q, gs) == List([i \in 1..n |-> PyMod(gs[i], q)])

\* random.gauss draws at most sqrt(-2 ln 2^-53), about 8.6, deviations.
GaussTail == 9

----------------------------------------------------------------------------
(* The bit codec.                                                          *)

\* A bytes_to_bits that emits the most significant bit first.
bytes_to_bits_msb(byte_data) ==
    List([k \in 1..(8 * Len(byte_data)) |->
            (byte_data[((k - 1) \div 8) + 1] \div Pow2(7 - ((k - 1) % 8))) % 2])

\* bytes_to_bits: (b >> i) & 1 for i = 0..7, byte after byte.
bytes_to_bits(byte_data) ==
    List([k \in 1..(8 * Len(byte_data)) |->
            (byte_data[((k - 1) \div 8) + 1] \div Pow2((k - 1) % 8)) % 2])

\* byte |= bits[i + j] << j over j = 0..7, for bits of 0 and 1.
RECURSIVE PackByte(_, _, _)
PackByte(bits, i, j) ==
    IF j = 8 THEN 0
    ELSE (IF i + j < Len(bits) THEN bits[i + j + 1] * Pow2(j) ELSE 0)
         + PackByte(bits, i, j + 1)

\* bits_to_bytes: whole groups of 8 only, a shorter tail is dropped.
bits_to_bytes(bits) ==
    List([k \in 1..(Len(bits) \div 8) |-> PackByte(bits, 8 * (k - 1), 0)])

----------------------------------------------------------------------------
(* class RLWECrypto.                                                       *)

\* generate_keypair's arithmetic on the sampled lists a, s, e.
PublicB(sch, a, s, e) ==
    LET poly_mod == create_poly_mod(sch.n)
        as_poly  == poly_mul_mod(Polynomial(a), Polynomial(s), poly_mod, sch.q)
        b_poly   == PolyModInt(PolySub(PolyNeg(as_poly), Polynomial(e)), sch.q)
    IN  to_list(b_poly, sch.n)

\* encrypt: the message scaled to q // 2.
ScaledMessage(sch, message) ==
    List([i \in 1..Len(message) |->
            PyMod(message[i] * FloorDiv(sch.q, 2), sch.q)])

\* encrypt's arithmetic: (c1, c2) from the public key, the message and the
\* sampled r, e1, e2.
Ciphertext(sch, a, b, message, r, e1, e2) ==
    LET poly_mod == create_poly_mod(sch.n)
        r_poly   == Polynomial(r)
        scaled_message_poly == Polynomial(ScaledMessage(sch, message))
        c1_poly == PolyModInt(
                       PolyAdd(poly_mul_mod(Polynomial(a), r_poly, poly_mod,
                                            sch.q),
                               Polynomial(e1)), sch.q)
        c2_poly == PolyModInt(
                       PolyAdd(PolyAdd(poly_mul_mod(Polynomial(b), r_poly,
                                                    poly_mod, sch.q),
                                       Polynomial(e2)),
                               scaled_message_poly), sch.q)
    IN  <<to_list(c1_poly, sch.n), to_list(c2_poly, sch.n)>>

\* decrypt: m' = c2 + c1 * s, as a list of n coefficients.
MScaled(sch, s, c1, c2) ==
    LET c1s_poly == poly_mul_mod(Polynomial(c1), Polynomial(s),
                                 create_poly_mod(sch.n), sch.q)
    IN  to_list(PolyModInt(PolyAdd(Polynomial(c2), c1s_poly), sch.q), sch.n)

\* A decision window closed at its upper end.
DecodeBitClosed(q, v) ==
    IF v > FloorDiv(q, 4) /\ v <= FloorDiv(3 * q, 4) THEN 1 ELSE 0

\* decrypt: the bit a coefficient of m' decodes to.
DecodeBit(q, v) ==
    IF v > FloorDiv(q, 4) /\ v < FloorDiv(3 * q, 4) THEN 1 ELSE 0

BinaryMsg(sch, m_scaled) ==
    List([i \in 1..sch.n |-> DecodeBit(sch.q, m_scaled[i])])

----------------------------------------------------------------------------
(* Bounds of the model and the values the calls are tried on.              *)

\* Gaussian values of magnitude up to GMax are drawn.
GMax == 1

\* The calls stop once the random module has handed out MaxDraws values.
MaxDraws == 12

\* A modulus big enough for a product of two coefficients to exceed the
\* float significand: a prime, 3 mod 4, between 2^26.5 and 2^27.
LargeQ == 94906319

\* The rounded Gaussian values the model draws for (q, std_dev): the small
\* ones and the largest one strictly inside the decision margin q // 4,
\* as far as std_dev lets them occur.
GaussDraws(q, std_dev) ==
    {g \in (-GMax..GMax) \cup {FloorDiv(Abs(q), 4) - 1} :
        Abs(g) <= GaussTail * Abs(std_dev)}

\* The getrandbits values the model draws for modulus q: one below q and one
\* that r % q wraps.
RawDraws(q) ==
    {raw \in {Abs(q) - 2, 2 * Abs(q) - 1} : InRawRange(q, raw)}

\* The Gaussian values of one call that samples k error polynomials of n
\* coefficients: at most one of the k polynomials is nonzero.
ErrorDraws(k, n, G) ==
    {g \in [1..(k * n) -> G] :
        \E j \in 1..k : \A i \in 1..(k * n) :
            g[i] # 0 => (i - 1) \div n = j - 1}

Messages(n) == [1..n -> {0, 1}]

\* Moduli up to MaxModulus are tried on every residue, larger ones on the
\* residues next to 0 and to q.
MaxModulus == 12

\* Operands of a direct poly_mul_mod call have at most MulTerms nonzero
\* coefficients.
MulTerms == 2

\* Byte strings of up to MaxBytes bytes are encoded.
MaxBytes == 2

\* randbelow is tried on n = 1..MaxRandN.
MaxRandN == 5

CornerResidues(q) == {x \in {0, 1, q - 2, q - 1} : 0 <= x /\ x < q}

\* The coefficient lists a direct poly_mul_mod call is tried on.
MulOperands(n, q) ==
    {p \in [1..n -> IF q <= MaxModulus THEN 0..(q - 1)
                    ELSE CornerResidues(q)] :
        Cardinality({i \in 1..n : p[i] # 0}) <= MulTerms}

\* The bytes the codec is tried on.
ByteValues == {0, 1, 2, 85, 127, 128, 254, 255}

ByteStrings == UNION {[1..k -> ByteValues] : k \in 0..MaxBytes}

\* The private keys and ciphertexts a caller hands to decrypt.
SuppliedKeys(n, q) == [1..n -> CornerResidues(q)]

SuppliedC2(n, q) ==
    [1..n -> IF q <= MaxModulus THEN 0..(q - 1) ELSE {0, FloorDiv(q, 2)}]

NoScheme == [n |-> 0, q |-> 0, std_dev |-> 0]

NoKey == [valid |-> FALSE, a |-> <<>>, b |-> <<>>, s |-> <<>>, e |-> <<>>]

NoEnc == [valid |-> FALSE, a |-> <<>>, b |-> <<>>, message |-> <<>>,
          r |-> <<>>, e1 |-> <<>>, e2 |-> <<>>, c1 |-> <<>>, c2 |-> <<>>]

NoDec == [valid |-> FALSE, s |-> <<>>, c1 |-> <<>>, c2 |-> <<>>,
          m_scaled |-> <<>>, binary_msg |-> <<>>]

NoDraws == [call |-> "none", values |-> <<>>]

NoMul == [n |-> 0, q |-> 0, a |-> <<>>, b |-> <<>>, done |-> FALSE,
          result |-> <<>>]

NoCodec == [byte_data |-> <<>>, bits |-> <<>>, encoded |-> FALSE,
            bytes_out |-> <<>>, decoded |-> FALSE]

NoRb == [n |-> 0, drawn |-> 0, raw |-> 0, result |-> 0, hits |-> <<>>]

----------------------------------------------------------------------------
(* The operations of RLWECrypto.                                           *)

\* RLWECrypto(n, q, std_dev): the fields are stored as given, nothing is
\* tested.
Construct(n, q, std_dev) ==
    /\ scheme = [n |-> n, q |-> q, std_dev |-> std_dev]
    /\ key = NoKey /\ enc = NoEnc /\ dec = NoDec
    /\ rng = 0 /\ draws = NoDraws /\ error = "none"
    /\ mul = NoMul /\ codec = NoCodec /\ rb = NoRb

\* A generate_keypair that samples e before s.
KeygenSamplesSwapped(n, q, raws, gs) ==
    [a |-> sample_uniform(n, q, raws),
     s |-> sample_error(n, q, SubSeq(gs, n + 1, 2 * n)),
     e |-> sample_error(n, q, SubSeq(gs, 1, n))]

\* generate_keypair's sampling from the values the random module hands it,
\* getrandbits values (raws) first and Gaussian values (gs) after them:
\* a, then s, then e.
KeygenSamples(n, q, raws, gs) ==
    [a |-> sample_uniform(n, q, raws),
     s |-> sample_error(n, q, SubSeq(gs, 1, n)),
     e |-> sample_error(n, q, SubSeq(gs, n + 1, 2 * n))]

\* encrypt's sampling: r, then e1, then e2.
EncryptSamples(n, q, gs) ==
    [r  |-> sample_error(n, q, SubSeq(gs, 1, n)),
     e1 |-> sample_error(n, q, SubSeq(gs, n + 1, 2 * n)),
     e2 |-> sample_error(n, q, SubSeq(gs, 2 * n + 1, 3 * n))]

\* generate_keypair(): with q = 0 the first randbelow raises
\* ZeroDivisionError and nothing is returned.
GenerateKeypair ==
    /\ rng + 3 * scheme.n <= MaxDraws
    /\ IF scheme.q = 0
       THEN /\ error' = "ZeroDivisionError"
            /\ draws' = [call |-> "generate_keypair", values |-> <<>>]
            /\ UNCHANGED <<key, enc, dec, rng>>
       ELSE \E raws \in [1..scheme.n -> RawDraws(scheme.q)],
               gs \in ErrorDraws(2, scheme.n,
                                 GaussDraws(scheme.q, scheme.std_dev)) :
              LET smp == KeygenSamples(scheme.n, scheme.q, List(raws),
                                       List(gs))
              IN  /\ key' = [valid |-> TRUE, a |-> smp.a,
                             b |-> PublicB(scheme, smp.a, smp.s, smp.e),
                             s |-> smp.s, e |-> smp.e]
                  /\ draws' = [call |-> "generate_keypair",
                               values |-> List(raws) \o List(gs)]
                  /\ rng' = rng + 3 * scheme.n
                  /\ enc' = NoEnc /\ dec' = NoDec
                  /\ error' = "none"
    /\ UNCHANGED <<scheme, mul, codec, rb>>

\* encrypt(public_key, message) on the key pair at hand.
Encrypt ==
    /\ key.valid
    /\ rng + 3 * scheme.n <= MaxDraws
    /\ \E message \in Messages(scheme.n),
          gs \in ErrorDraws(3, scheme.n,
                            GaussDraws(scheme.q, scheme.std_dev)) :
          LET smp == EncryptSamples(scheme.n, scheme.q, List(gs))
              ct  == Ciphertext(scheme, key.a, key.b, List(message),
                                smp.r, smp.e1, smp.e2)
          IN  /\ enc' = [valid |-> TRUE, a |-> key.a, b |-> key.b,
                         message |-> List(message), r |-> smp.r,
                         e1 |-> smp.e1, e2 |-> smp.e2,
                         c1 |-> ct[1], c2 |-> ct[2]]
              /\ draws' = [call |-> "encrypt", values |-> List(gs)]
              /\ rng' = rng + 3 * scheme.n
    /\ dec' = NoDec
    /\ error' = "none"
    /\ UNCHANGED <<scheme, key, mul, codec, rb>>

\* decrypt(private_key, ciphertext): no sampler is called.
DecryptCall(s, c1, c2) ==
    /\ LET m_scaled == MScaled(scheme, s, c1, c2)
       IN  dec' = [valid |-> TRUE, s |-> s, c1 |-> c1, c2 |-> c2,
                   m_scaled |-> m_scaled,
                   binary_msg |-> BinaryMsg(scheme, m_scaled)]
    /\ draws' = [call |-> "decrypt", values |-> <<>>]
    /\ error' = "none"
    /\ UNCHANGED <<scheme, key, enc, rng, mul, codec, rb>>

\* decrypt on the private key and the ciphertext at hand.
Decrypt ==
    /\ key.valid /\ enc.valid
    /\ DecryptCall(key.s, enc.c1, enc.c2)

Next == GenerateKeypair \/ Encrypt \/ Decrypt

\* Schemes with valid parameters and a small modulus.
Init ==
    \E sch \in {<<1, 5>>, <<2, 97>>} : Construct(sch[1], sch[2], 1)

Spec == Init /\ [][Next]_vars

\* A scheme with valid parameters, a large modulus and a wide error
\* distribution.
InitLarge == Construct(2, LargeQ, LargeQ)

SpecLarge == InitLarge /\ [][Next]_vars

\* decrypt on a private key and a ciphertext the caller supplies; the model
\* follows one such call.
DecryptSupplied ==
    /\ ~dec.valid
    /\ \E s \in SuppliedKeys(scheme.n, scheme.q),
          c1 \in SuppliedKeys(scheme.n, scheme.q),
          c2 \in SuppliedC2(scheme.n, scheme.q) :
          DecryptCall(List(s), List(c1), List(c2))

NextDecrypt == DecryptSupplied

\* Schemes with valid parameters whose decrypt is called on supplied inputs.
InitDecrypt ==
    \E sch \in {<<1, q>> : q \in 2..MaxModulus} \cup {<<2, LargeQ>>} :
        Construct(sch[1], sch[2], 1)

SpecDecrypt == InitDecrypt /\ [][NextDecrypt]_vars

\* Schemes whose parameters the specification calls invalid: n not a power
\* of two, q < 2, std_dev <= 0.
InitAny ==
    \E sch \in {<<3, 97, 0>>, <<2, 1, 1>>, <<2, 0, 1>>, <<1, -5, 1>>,
                <<1, 5, -1>>} :
        Construct(sch[1], sch[2], sch[3])

SpecAny == InitAny /\ [][Next]_vars

----------------------------------------------------------------------------
(* Direct calls of the functions of poly_utils.                            *)

\* No scheme is built; the call's variable is set by the Init at hand.
NoObject ==
    /\ scheme = NoScheme /\ key = NoKey /\ enc = NoEnc /\ dec = NoDec
    /\ rng = 0 /\ draws = NoDraws /\ error = "none"

\* poly_mul_mod(Polynomial(a), Polynomial(b), create_poly_mod(n), q), the
\* result read with to_list(n).
PolyMulMod ==
    /\ ~mul.done
    /\ mul' = [mul EXCEPT
                 !.done = TRUE,
                 !.result = to_list(poly_mul_mod(Polynomial(mul.a),
                                                 Polynomial(mul.b),
                                                 create_poly_mod(mul.n),
                                                 mul.q), mul.n)]
    /\ UNCHANGED <<scheme, key, enc, dec, rng, draws, error, codec, rb>>

NextMul == PolyMulMod

InitMul ==
    /\ NoObject /\ codec = NoCodec /\ rb = NoRb
    /\ \E sch \in {<<2, 5>>, <<4, 97>>, <<2, LargeQ>>} :
          \E a \in MulOperands(sch[1], sch[2]),
             b \in MulOperands(sch[1], sch[2]) :
             mul = [n |-> sch[1], q |-> sch[2], a |-> List(a), b |-> List(b),
                    done |-> FALSE, result |-> <<>>]

SpecMul == InitMul /\ [][NextMul]_vars

\* bytes_to_bits(byte_data)
BytesToBits ==
    /\ ~codec.encoded
    /\ codec' = [codec EXCEPT !.encoded = TRUE,
                              !.bits = bytes_to_bits(codec.byte_data)]
    /\ UNCHANGED <<scheme, key, enc, dec, rng, draws, error, mul, rb>>

\* bits_to_bytes on the bits bytes_to_bits returned.
BitsToBytes ==
    /\ codec.encoded /\ ~codec.decoded
    /\ codec' = [codec EXCEPT !.decoded = TRUE,
                              !.bytes_out = bits_to_bytes(codec.bits)]
    /\ UNCHANGED <<scheme, key, enc, dec, rng, draws, error, mul, rb>>

NextCodec == BytesToBits \/ BitsToBytes

InitCodec ==
    /\ NoObject /\ mul = NoMul /\ rb = NoRb
    /\ \E x \in ByteStrings :
          codec = [byte_data |-> List(x), bits |-> <<>>, encoded |-> FALSE,
                   bytes_out |-> <<>>, decoded |-> FALSE]

SpecCodec == InitCodec /\ [][NextCodec]_vars

\* randbelow(n) on the next getrandbits value of a stream that hands out
\* every value of num_bytes * 8 bits once, 0 first: rb.hits[x + 1] counts
\* the calls that returned x.
Randbelow ==
    /\ rb.drawn < Pow2(8 * NumBytes(rb.n))
    /\ LET raw    == rb.drawn
           result == randbelow(rb.n, raw)
       IN  rb' = [n |-> rb.n, drawn |-> rb.drawn + 1, raw |-> raw,
                  result |-> result,
                  hits |-> [rb.hits EXCEPT ![result + 1] = @ + 1]]
    /\ UNCHANGED <<scheme, key, enc, dec, rng, draws, error, mul, codec>>

NextRand == Randbelow

InitRand ==
    /\ NoObject /\ mul = NoMul /\ codec = NoCodec
    /\ \E n \in 1..MaxRandN :
          rb = [n |-> n, drawn |-> 0, raw |-> 0, result |-> 0,
                hits |-> List([x \in 1..n |-> 0])]

SpecRand == InitRand /\ [][NextRand]_vars


----------------------------------------------------------------------------
(* Reference arithmetic of the ring Z_q[x]/(x^n + 1), exact.               *)

\* The sum over i' in i..n-1 of the terms a[i'] * b[j] that land on x^k:
\* j = k - i' taken with sign +, j = k + n - i' taken with sign -.
RECURSIVE NegacyclicSum(_, _, _, _, _)
NegacyclicSum(a, b, n, k, i) ==
    IF i >= n THEN BigZero
    ELSE LET j    == (k - i) % n
             term == BigMul(BigFromInt(a[i + 1]), BigFromInt(b[j + 1]))
         IN  BigAdd(IF i + j < n THEN term ELSE BigNeg(term),
                    NegacyclicSum(a, b, n, k, i + 1))

\* a * b for two lists of n coefficients, every coefficient in [0, q).
Negacyclic(a, b, n, q) ==
    List([k \in 1..n |-> BigMod(NegacyclicSum(a, b, n, k - 1, 0), q)])

\* The representative of x in [0, q) that is nearest to 0.
Centered(x, q) == IF 2 * x > q THEN x - q ELSE x

\* p is a list of scheme.n integers in [0, scheme.q).
InRing(p) ==
    /\ Len(p) = scheme.n
    /\ \A i \in 1..Len(p) : p[i] \in 0..(scheme.q - 1)

\* The noise e2 + e1 * s - e * r of the ciphertext at hand.
Noise ==
    LET n   == scheme.n
        q   == scheme.q
        e1s == Negacyclic(enc.e1, key.s, n, q)
        er  == Negacyclic(key.e, enc.r, n, q)
    IN  List([k \in 1..n |-> (enc.e2[k] + e1s[k] + (q - er[k])) % q])

----------------------------------------------------------------------------
(* The claims on key generation, encryption and decryption.                *)

\* C1: decrypt(s, encrypt((a, b), m)) = m in all n positions whenever every
\* coefficient of the noise e2 + e1*s - e*r, centered, is below q // 4 in
\* absolute value.
C1_DecryptInvertsEncrypt ==
    (dec.valid /\ \A k \in 1..scheme.n :
                     Abs(Centered(Noise[k], scheme.q)) < FloorDiv(scheme.q, 4))
        => dec.binary_msg = enc.message

\* C8: every key pair returned satisfies b = -(a*s + e) mod q: b + a*s + e is
\* the zero polynomial of the ring.
C8_PublicKeyRelation ==
    key.valid =>
        LET as == Negacyclic(key.a, key.s, scheme.n, scheme.q)
        IN  /\ Len(key.b) = scheme.n
            /\ \A k \in 1..scheme.n :
                   (key.b[k] + as[k] + key.e[k]) % scheme.q = 0

\* C9: every polynomial returned (a, b, s, c1, c2) has length n and integer
\* coefficients in [0, q), and every decrypt result has length n and entries
\* in {0, 1}.
C9_WellFormedOutputs ==
    /\ key.valid => InRing(key.a) /\ InRing(key.b) /\ InRing(key.s)
    /\ enc.valid => InRing(enc.c1) /\ InRing(enc.c2)
    /\ dec.valid => /\ Len(dec.binary_msg) = scheme.n
                    /\ \A i \in 1..Len(dec.binary_msg) :
                           dec.binary_msg[i] \in {0, 1}

\* A decryption of a ciphertext whose c1 and c2 both end in a zero
\* coefficient, under a key whose b does.
C9_Witness ==
    /\ dec.valid /\ scheme.n = 2
    /\ key.b[2] = 0 /\ key.b[1] # 0
    /\ enc.c1[2] = 0 /\ enc.c1[1] # 0
    /\ enc.c2[2] = 0 /\ enc.c2[1] # 0
    /\ dec.binary_msg = <<1, 0>>

\* One call's use of the random stream: the stream advances by exactly the
\* values the call is handed, and the call's polynomials are these values in
\* the order a, s, e (generate_keypair) and r, e1, e2 (encrypt), each value
\* used for one coefficient; decrypt is handed nothing.
DrawOrderStep ==
    LET n == scheme.n
        q == scheme.q
        v == draws'.values
    IN  /\ rng' = rng + Len(v)
        /\ (draws'.call = "generate_keypair" /\ error' = "none") =>
              /\ Len(v) = 3 * n
              /\ key'.a = [i \in 1..n |-> randbelow(q, v[i])]
              /\ key'.s = [i \in 1..n |-> PyMod(v[n + i], q)]
              /\ key'.e = [i \in 1..n |-> PyMod(v[2 * n + i], q)]
        /\ draws'.call = "encrypt" =>
              /\ Len(v) = 3 * n
              /\ enc'.r  = [i \in 1..n |-> PyMod(v[i], q)]
              /\ enc'.e1 = [i \in 1..n |-> PyMod(v[n + i], q)]
              /\ enc'.e2 = [i \in 1..n |-> PyMod(v[2 * n + i], q)]
        /\ draws'.call = "decrypt" => v = <<>>

\* C10: within one call the random stream is consumed in a fixed order and
\* never reset: generate_keypair draws a, then s, then e; encrypt draws r,
\* then e1, then e2; decrypt draws nothing.
C10_DrawOrder == [][DrawOrderStep]_vars

\* A key generation and an encryption whose polynomials all differ, then a
\* decryption.
C10_Witness ==
    /\ scheme.n = 2
    /\ key.valid /\ key.s # key.e /\ key.a # key.s /\ key.a # key.e
    /\ enc.valid /\ enc.e1 # enc.r /\ enc.e1 # enc.e2
    /\ draws.call = "decrypt" /\ rng = 12

----------------------------------------------------------------------------
(* The claims on decrypt's decision and on the parameters.                 *)

\* The cyclic distance on Z_q.
CyclicDist(x, y, q) == Min(Abs(x - y), q - Abs(x - y))

\* v is strictly closer to q // 2 than to 0.
CloserToHalf(q, v) ==
    CyclicDist(v, FloorDiv(q, 2), q) < CyclicDist(v, 0, q)

C7_DecryptRule ==
    dec.valid =>
        LET n   == scheme.n
            q   == scheme.q
            c1s == Negacyclic(dec.c1, dec.s, n, q)
        IN  /\ InRing(dec.m_scaled)
            /\ \A i \in 1..n :
                  /\ dec.m_scaled[i] = (dec.c2[i] + c1s[i]) % q
                  /\ dec.binary_msg[i] = 1 <=>
                        /\ FloorDiv(q, 4) < dec.m_scaled[i]
                        /\ dec.m_scaled[i] < FloorDiv(3 * q, 4)
                  /\ dec.binary_msg[i] \in {0, 1}

IsPowerOfTwo(n) == n >= 1 /\ Pow2(BitLength(n) - 1) = n

\* The parameters the specification accepts.
ValidParams(sch) == IsPowerOfTwo(sch.n) /\ sch.q >= 2 /\ sch.std_dev > 0

\* C5: a scheme with n not a power of two, q < 2 or sigma <= 0 is rejected
\* with InvalidParameter, and no key pair or ciphertext is ever produced
\* from such parameters.
C5_InvalidParametersRejected ==
    ~ValidParams(scheme) =>
        /\ ~key.valid /\ ~enc.valid
        /\ draws.call # "none" => error = "InvalidParameter"

----------------------------------------------------------------------------
(* The claims on the functions of poly_utils.                              *)

\* C2: poly_mul_mod(a, b, x^n + 1, q), padded to length n, is the negacyclic
\* product: coefficient k is the sum of a[i]*b[j] over i + j = k minus the
\* sum over i + j = k + n, reduced into [0, q).
C2_NegacyclicProduct ==
    mul.done => mul.result = Negacyclic(mul.a, mul.b, mul.n, mul.q)

\* C3: bits_to_bytes(bytes_to_bits(x)) = x, and bytes_to_bits emits 8 bits
\* per byte, least significant bit first: byte k is the sum of its bits
\* bits[8k + j] * 2^j.
C3_CodecRoundTrip ==
    /\ codec.decoded => codec.bytes_out = codec.byte_data
    /\ codec.encoded =>
          /\ Len(codec.bits) = 8 * Len(codec.byte_data)
          /\ \A i \in 1..Len(codec.bits) : codec.bits[i] \in {0, 1}
          /\ \A k \in 1..Len(codec.byte_data) :
                codec.byte_data[k] =
                    codec.bits[8 * k - 7] + 2 * codec.bits[8 * k - 6]
                    + 4 * codec.bits[8 * k - 5] + 8 * codec.bits[8 * k - 4]
                    + 16 * codec.bits[8 * k - 3] + 32 * codec.bits[8 * k - 2]
                    + 64 * codec.bits[8 * k - 1] + 128 * codec.bits[8 * k]

\* Two bytes that differ and are no mirror images of themselves, encoded and
\* decoded.
C3_Witness ==
    /\ codec.decoded
    /\ codec.byte_data = <<1, 254>>
    /\ codec.bits = <<1, 0, 0, 0, 0, 0, 0, 0, 0, 1, 1, 1, 1, 1, 1, 1>>
    /\ codec.bytes_out = <<1, 254>>

\* C4: the uniform sampler has no modulo bias: once every raw value has
\* been drawn once, every result in 0..n-1 has been produced by the same
\* number of raw values.
C4_NoModuloBias ==
    rb.drawn = Pow2(8 * NumBytes(rb.n)) =>
        \A x, y \in 1..rb.n : rb.hits[x] = rb.hits[y]

====
